---- MODULE Spec2Model ----
(***************************************************************************)
(* A model of ddtrace/appsec/processor.py: the header normalizer           *)
(* (_transform_headers), the header tag projection (_set_headers) and the  *)
(* AppSecSpanProcessor (construction, on_span_start, on_span_finish).      *)
(*                                                                         *)
(* A Python str is a TLA+ string, except for header names, which are       *)
(* sequences of one-character strings so that str.lower() is computed      *)
(* character by character.  A Python dict is the sequence of its items     *)
(* [k, v] in insertion order (keys unique) when its order matters, and a   *)
(* function with a finite domain when it does not.                         *)
(***************************************************************************)
EXTENDS Integers, Sequences, FiniteSets, TLC

VARIABLES
    ctor,               \* "uninit", "ready" (constructed), or "failed" (__attrs_post_init__ raised)
    ctorError,          \* the error __attrs_post_init__ raised, "" when none
    ctorArgs,           \* the arguments the constructor was called with
    ddwaf,              \* self._ddwaf: NoEngine or an engine [required_data |-> set of addresses]
    addresses_to_keep,  \* self._addresses_to_keep
    span,               \* the span in flight
    ctx,                \* the context store of the span in flight: key -> value
    pre,                \* the span as it was when the last handler was entered
    call,               \* what the last handler call did
    hdrIn,              \* HeaderSpec: the raw header dict handed to _transform_headers
    hdrOut,             \* HeaderSpec: what _transform_headers returned
    hdrCalls,           \* HeaderSpec: how many times _transform_headers was applied
    hdrOrig,            \* HeaderSpec: the raw header dict as it was before any call
    hdrFirst,           \* HeaderSpec: the dict the first call returned, as the second call left it
    os_patched,         \* OpenSearchSpec: the module's _datadog_patch flag
    os_wrappers,        \* OpenSearchSpec: how many wrappers are around Transport.perform_request
    os_pinned,          \* OpenSearchSpec: whether a Pin was put onto Transport
    os_last,            \* OpenSearchSpec: the last patch or unpatch call and the state it found
    os_req              \* OpenSearchSpec: the perform_request call in hand, through the wrapper

vars ==
    <<ctor, ctorError, ctorArgs, ddwaf, addresses_to_keep, span, ctx, pre, call,
      hdrIn, hdrOut, hdrCalls, hdrOrig, hdrFirst,
      os_patched, os_wrappers, os_pinned, os_last, os_req>>

procVars == <<ctor, ctorError, ctorArgs, ddwaf, addresses_to_keep, span, ctx, pre, call>>
hdrVars == <<hdrIn, hdrOut, hdrCalls, hdrOrig, hdrFirst>>
osVars == <<os_patched, os_wrappers, os_pinned, os_last, os_req>>

(***************************************************************************)
(* Bounds                                                                  *)
(***************************************************************************)
\* the most entries a raw header dict of HeaderSpec has
MaxHdrs == 3
\* the most items the instrumentation puts into one span's context store
MaxItems == 2

(***************************************************************************)
(* Python values: a str or a list of values                                *)
(***************************************************************************)
PyStr(s) == [t |-> "str", s |-> s, l |-> <<>>]
PyList(xs) == [t |-> "list", s |-> "", l |-> xs]
PyNone == [t |-> "None", s |-> "", l |-> <<>>]

\* isinstance(v, list)
IsList(v) == v.t = "list"

(***************************************************************************)
(* str.lower() on a header name                                            *)
(***************************************************************************)
UpperLetters == <<"A", "B", "C", "D", "E", "F", "G", "H", "I", "J", "K", "L", "M",
                  "N", "O", "P", "Q", "R", "S", "T", "U", "V", "W", "X", "Y", "Z">>
LowerLetters == <<"a", "b", "c", "d", "e", "f", "g", "h", "i", "j", "k", "l", "m",
                  "n", "o", "p", "q", "r", "s", "t", "u", "v", "w", "x", "y", "z">>

LowerChar(c) ==
    IF \E i \in DOMAIN UpperLetters : UpperLetters[i] = c
    THEN LowerLetters[CHOOSE i \in DOMAIN UpperLetters : UpperLetters[i] = c]
    ELSE c

lower(name) == [i \in 1..Len(name) |-> LowerChar(name[i])]

\* the characters of a name joined into one string
RECURSIVE Join(_)
Join(name) == IF name = <<>> THEN "" ELSE Head(name) \o Join(Tail(name))

(***************************************************************************)
(* Header names                                                            *)
(***************************************************************************)
cookie == <<"c", "o", "o", "k", "i", "e">>
set_cookie == <<"s", "e", "t", "-", "c", "o", "o", "k", "i", "e">>

(***************************************************************************)
(* dict helpers (a dict as the sequence of its items)                      *)
(***************************************************************************)
HasKey(d, key) == \E i \in DOMAIN d : d[i].k = key
IndexOf(d, key) == CHOOSE i \in DOMAIN d : d[i].k = key
Keys(d) == {d[i].k : i \in DOMAIN d}
Get(d, key) == d[IndexOf(d, key)].v

(***************************************************************************)
(* _transform_headers                                                      *)
(***************************************************************************)
\* TransformStep with the redaction test made on the name as given
TransformStep_CaseSensitive(normalized, rawHeader, value) ==
    LET header == lower(rawHeader) IN
    IF rawHeader \in {cookie, set_cookie} THEN normalized
    ELSE IF HasKey(normalized, header)
         THEN LET i == IndexOf(normalized, header)
                  existing == normalized[i].v
              IN  IF IsList(existing)
                  THEN [normalized EXCEPT ![i].v = PyList(Append(existing.l, value))]
                  ELSE [normalized EXCEPT ![i].v = PyList(<<existing, value>>)]
         ELSE Append(normalized, [k |-> header, v |-> value])

\* TransformStep without the isinstance test: a third value nests the list
TransformStep_NoListCheck(normalized, rawHeader, value) ==
    LET header == lower(rawHeader) IN
    IF header \in {cookie, set_cookie} THEN normalized
    ELSE IF HasKey(normalized, header)
         THEN LET i == IndexOf(normalized, header)
              IN  [normalized EXCEPT ![i].v = PyList(<<normalized[i].v, value>>)]
         ELSE Append(normalized, [k |-> header, v |-> value])

\* TransformStep storing every first value as a one-element list
TransformStep_AlwaysList(normalized, rawHeader, value) ==
    LET header == lower(rawHeader) IN
    IF header \in {cookie, set_cookie} THEN normalized
    ELSE IF HasKey(normalized, header)
         THEN LET i == IndexOf(normalized, header)
              IN  [normalized EXCEPT ![i].v = PyList(Append(normalized[i].v.l, value))]
         ELSE Append(normalized, [k |-> header, v |-> PyList(<<value>>)])

\* one iteration of the loop over data.items()
TransformStep(normalized, rawHeader, value) ==
    LET header == lower(rawHeader) IN
    IF header \in {cookie, set_cookie} THEN normalized
    ELSE IF HasKey(normalized, header)
         THEN LET i == IndexOf(normalized, header)
                  existing == normalized[i].v
              IN  IF IsList(existing)
                  THEN [normalized EXCEPT ![i].v = PyList(Append(existing.l, value))]
                  ELSE [normalized EXCEPT ![i].v = PyList(<<existing, value>>)]
         ELSE Append(normalized, [k |-> header, v |-> value])

RECURSIVE TransformLoop(_, _)
TransformLoop(normalized, items) ==
    IF items = <<>> THEN normalized
    ELSE TransformLoop(TransformStep(normalized, Head(items).k, Head(items).v), Tail(items))

_transform_headers(data) == TransformLoop(<<>>, data)

\* What a call of _transform_headers leaves of its argument.  `normalized[header] =
\* value` stores the very object that data holds, and `existing.append(value)` changes
\* it when it is a list.  alias maps each lower-cased name seen to the index of the
\* item of data whose value object normalized holds under it, or to 0 once normalized
\* holds a list of its own, made by `[existing, value]`.
RECURSIVE ArgumentLoop(_, _, _)
ArgumentLoop(alias, data, j) ==
    IF j > Len(data) THEN data
    ELSE LET header == lower(data[j].k)
             value == data[j].v
         IN  IF header \in {cookie, set_cookie} THEN ArgumentLoop(alias, data, j + 1)
             ELSE IF header \in DOMAIN alias
                  THEN IF alias[header] = 0 THEN ArgumentLoop(alias, data, j + 1)
                       ELSE IF IsList(data[alias[header]].v)
                            THEN ArgumentLoop(alias,
                                              [data EXCEPT ![alias[header]].v =
                                                               PyList(Append(@.l, value))],
                                              j + 1)
                            ELSE ArgumentLoop([alias EXCEPT ![header] = 0], data, j + 1)
                  ELSE ArgumentLoop([x \in DOMAIN alias \cup {header} |->
                                         IF x = header THEN j ELSE alias[x]],
                                    data, j + 1)

argument_after(data) == ArgumentLoop(<<>>, data, 1)

(***************************************************************************)
(* _Addresses, and the context-store key each address is read from         *)
(***************************************************************************)
SERVER_REQUEST_BODY == "server.request.body"
SERVER_REQUEST_QUERY == "server.request.query"
SERVER_REQUEST_HEADERS_NO_COOKIES == "server.request.headers.no_cookies"
SERVER_REQUEST_URI_RAW == "server.request.uri.raw"
SERVER_REQUEST_METHOD == "server.request.method"
SERVER_REQUEST_PATH_PARAMS == "server.request.path_params"
SERVER_REQUEST_COOKIES == "server.request.cookies"
SERVER_RESPONSE_STATUS == "server.response.status"
SERVER_RESPONSE_HEADERS_NO_COOKIES == "server.response.headers.no_cookies"

_Addresses ==
    {SERVER_REQUEST_BODY, SERVER_REQUEST_QUERY, SERVER_REQUEST_HEADERS_NO_COOKIES,
     SERVER_REQUEST_URI_RAW, SERVER_REQUEST_METHOD, SERVER_REQUEST_PATH_PARAMS,
     SERVER_REQUEST_COOKIES, SERVER_RESPONSE_STATUS, SERVER_RESPONSE_HEADERS_NO_COOKIES}

\* the addresses on_span_finish copies as they are, in the order of its blocks,
\* each with the key of its _context.get_item call
ScalarItems ==
    <<[address |-> SERVER_REQUEST_QUERY, key |-> "http.request.query"],
      [address |-> SERVER_REQUEST_URI_RAW, key |-> "http.request.uri"],
      [address |-> SERVER_REQUEST_METHOD, key |-> "http.request.method"],
      [address |-> SERVER_REQUEST_PATH_PARAMS, key |-> "http.request.path_params"],
      [address |-> SERVER_REQUEST_COOKIES, key |-> "http.request.cookies"],
      [address |-> SERVER_RESPONSE_STATUS, key |-> "http.response.status"]>>

REQUEST_HEADERS_KEY == "http.request.headers"
RESPONSE_HEADERS_KEY == "http.response.headers"

ScalarKeys == {ScalarItems[i].key : i \in DOMAIN ScalarItems}
HeaderKeys == {REQUEST_HEADERS_KEY, RESPONSE_HEADERS_KEY}

(***************************************************************************)
(* The allow-lists of _set_headers                                         *)
(***************************************************************************)
_COLLECTED_REQUEST_HEADERS ==
    {"accept", "accept-encoding", "accept-language", "content-encoding",
     "content-language", "content-length", "content-type", "forwarded",
     "forwarded-for", "host", "true-client-ip", "user-agent", "via", "x-client-ip",
     "x-cluster-client-ip", "x-forwarded", "x-forwarded-for", "x-real-ip"}

_COLLECTED_RESPONSE_HEADERS ==
    {"content-length", "content-type", "Content-Encoding", "Content-Language"}

(***************************************************************************)
(* The span: span_type, tags, metrics and the trace's sampling priority    *)
(***************************************************************************)
WEB == "web"
OPENSEARCH == "opensearch"

MANUAL_KEEP_KEY == "manual.keep"
ORIGIN_KEY == "_dd.origin"
USER_KEEP == "USER_KEEP"

\* a dict whose order does not matter
EmptyDict == <<>>
Put(d, key, value) == [x \in DOMAIN d \cup {key} |-> IF x = key THEN value ELSE d[x]]

\* str(value), as Span.set_tag stores a value that is not a string
RECURSIVE PyRepr(_)
RECURSIVE ReprItems(_)
PyRepr(v) == IF IsList(v) THEN "[" \o ReprItems(v.l) \o "]" ELSE "'" \o v.s \o "'"
ReprItems(xs) ==
    IF xs = <<>> THEN ""
    ELSE IF Len(xs) = 1 THEN PyRepr(xs[1])
    ELSE PyRepr(xs[1]) \o ", " \o ReprItems(Tail(xs))
stringify(v) == IF IsList(v) THEN PyRepr(v) ELSE v.s

set_metric(s, key, value) == [s EXCEPT !.metrics = Put(@, key, value)]
_set_str_tag(s, key, value) == [s EXCEPT !.tags = Put(@, key, value)]
\* Span.set_tag: the manual.keep key sets the sampling priority and stores no tag
set_tag(s, key, value) ==
    IF key = MANUAL_KEEP_KEY THEN [s EXCEPT !.sampling_priority = USER_KEEP]
    ELSE [s EXCEPT !.tags = Put(@, key, stringify(value))]
HasTag(s, key) == key \in DOMAIN s.tags

\* the tag name of a projected header
_normalize_tag_name(kind, header) == kind \o ".headers." \o Join(lower(header))

(***************************************************************************)
(* _set_headers                                                            *)
(***************************************************************************)
\* _set_headers without the allow-list test
RECURSIVE SetHeadersLoop_All(_, _, _, _, _)
SetHeadersLoop_All(s, kind, to_collect, headers, i) ==
    IF i > Len(headers) THEN s
    ELSE SetHeadersLoop_All(set_tag(s, _normalize_tag_name(kind, headers[i].k), headers[i].v),
                            kind, to_collect, headers, i + 1)

RECURSIVE SetHeadersLoop(_, _, _, _, _)
SetHeadersLoop(s, kind, to_collect, headers, i) ==
    IF i > Len(headers) THEN s
    ELSE LET k == headers[i].k
             s1 == IF Join(lower(k)) \in to_collect
                   THEN set_tag(s, _normalize_tag_name(kind, k), headers[i].v)
                   ELSE s
         IN  SetHeadersLoop(s1, kind, to_collect, headers, i + 1)

_set_headers(s, kind, to_collect, headers) == SetHeadersLoop(s, kind, to_collect, headers, 1)

(***************************************************************************)
(* The engine (DDWaf): opaque; what it requires, and what run() may return *)
(***************************************************************************)
NoEngine == [present |-> FALSE, required_data |-> {}]
Engine(required) == [present |-> TRUE, required_data |-> required]

\* the required_data of the engines the model builds processors with
RequiredChoices ==
    {{},
     {SERVER_REQUEST_METHOD, SERVER_REQUEST_HEADERS_NO_COOKIES},
     {SERVER_REQUEST_BODY, SERVER_REQUEST_QUERY, SERVER_REQUEST_URI_RAW,
      SERVER_REQUEST_PATH_PARAMS, SERVER_REQUEST_COOKIES, SERVER_RESPONSE_STATUS,
      SERVER_RESPONSE_HEADERS_NO_COOKIES},
     _Addresses}
Engines == {Engine(r) : r \in RequiredChoices}

\* the serialized results run() returns on a match
Results == {"[{\"rule\":\"R1\"}]", ""}
RUN_NULL == "<None>"
RUN_RAISES == "<raise>"
RunOutcomes == {RUN_NULL, RUN_RAISES} \cup Results

(***************************************************************************)
(* AppSecSpanProcessor                                                     *)
(***************************************************************************)
\* the enabled property
enabled == ddwaf.present

_mark_needed(keep, address) == keep \cup {address}
_is_needed(address) == address \in addresses_to_keep

RECURSIVE MarkAll(_, _)
MarkAll(keep, required) ==
    IF required = {} THEN keep
    ELSE LET address == CHOOSE a \in required : TRUE
         IN  MarkAll(_mark_needed(keep, address), required \ {address})

\* what reading and building the rules can end in
RULES_OK == "ok"
RuleFailures == {"ENOENT", "EnvironmentError", "JSONDecodeError", "Exception", "ValueError"}

\* the sets a caller passes as addresses_to_keep (the attribute's factory gives set())
KeepArgs == {{}, {SERVER_REQUEST_COOKIES}}

NoSpan == [status |-> "none", span_type |-> "", tags |-> EmptyDict, metrics |-> EmptyDict,
           sampling_priority |-> "None"]
NoArgs == [ddwaf |-> NoEngine, addresses_to_keep |-> {}, rules |-> ""]
NoCall == [op |-> "none", raised |-> "", reads |-> {}, runs |-> 0, res |-> RUN_NULL,
           data |-> EmptyDict]

\* post_init_addresses without the unconditional mark of the request headers
post_init_addresses_NoBaseline(keep, engine) == MarkAll(keep, engine.required_data)

\* the end of __attrs_post_init__: the registry once the engine is there
post_init_addresses(keep, engine) ==
    _mark_needed(MarkAll(keep, engine.required_data), SERVER_REQUEST_HEADERS_NO_COOKIES)

\* post_init_raises with a rejected rule set only logged, as its warning level suggests
post_init_raises_RejectionLogged(ddwafArg, rules) ==
    ~ddwafArg.present /\ rules \notin {RULES_OK, "ValueError"}

\* whether __attrs_post_init__ ends in one of its raise statements: only when no
\* engine was passed in and reading, parsing or compiling the rules failed
post_init_raises(ddwafArg, rules) == ~ddwafArg.present /\ rules # RULES_OK

\* __init__ with __attrs_post_init__: ddwafArg is the engine passed in (NoEngine: none),
\* keepArg the set passed as addresses_to_keep, rules what loading the rule file ends
\* in, built the engine DDWaf(rules) gives.  When __attrs_post_init__ raises, the
\* instance keeps the attributes __init__ gave it: no engine, enabled is False.
Construct(ddwafArg, keepArg, rules, built) ==
    /\ ctor = "uninit"
    /\ ctorArgs' = [ddwaf |-> ddwafArg, addresses_to_keep |-> keepArg,
                    rules |-> IF ddwafArg.present THEN "" ELSE rules]
    /\ IF post_init_raises(ddwafArg, rules)
       THEN /\ ctor' = "failed"
            /\ ctorError' = rules
            /\ ddwaf' = ddwafArg
            /\ addresses_to_keep' = keepArg
       ELSE LET engine == IF ddwafArg.present THEN ddwafArg ELSE built
            IN  /\ ctor' = "ready"
                /\ ctorError' = ""
                /\ ddwaf' = engine
                /\ addresses_to_keep' = post_init_addresses(keepArg, engine)
    /\ UNCHANGED <<span, ctx, pre, call, hdrVars, osVars>>

\* the blocks of on_span_finish without their _is_needed tests
RECURSIVE CollectScalars_NoNeedTest(_, _)
CollectScalars_NoNeedTest(data, i) ==
    IF i > Len(ScalarItems) THEN data
    ELSE LET item == ScalarItems[i]
         IN  CollectScalars_NoNeedTest(IF item.key \in DOMAIN ctx
                                       THEN Put(data, item.address, ctx[item.key])
                                       ELSE data,
                                       i + 1)

\* the blocks of on_span_finish that copy an item as it is, from block i on
RECURSIVE CollectScalars(_, _)
CollectScalars(data, i) ==
    IF i > Len(ScalarItems) THEN data
    ELSE LET item == ScalarItems[i]
         IN  CollectScalars(IF _is_needed(item.address) /\ item.key \in DOMAIN ctx
                            THEN Put(data, item.address, ctx[item.key])
                            ELSE data,
                            i + 1)

\* the keys on_span_finish asks the context store for
KeysRead ==
    HeaderKeys \cup {ScalarItems[i].key : i \in {j \in DOMAIN ScalarItems : _is_needed(ScalarItems[j].address)}}

Outcome(s, raised, reads, runs, res, data) ==
    [span |-> s, raised |-> raised, reads |-> reads, runs |-> runs, res |-> res, data |-> data]

\* on_span_finish without its span-type test
IsSkipped_Never(s) == FALSE

\* the early return of on_span_finish
IsSkipped(s) == s.span_type # WEB

\* the baseline telemetry without the runtime family
Baseline_MetricOnly(s) == set_metric(s, "_dd.appsec.enabled", 1)

\* the baseline telemetry
Baseline(s) ==
    _set_str_tag(set_metric(s, "_dd.appsec.enabled", 1), "_dd.runtime_family", "python")

\* the match branch taken whatever run() returned
IsMatch_Always(res) == TRUE

\* res is not None
IsMatch(res) == res # RUN_NULL

\* the two tags of a match
TagEvent(s, res) ==
    _set_str_tag(_set_str_tag(s, "appsec.event", "true"),
                 "_dd.appsec.json", "{\"triggers\":" \o res \o "}")

\* the retention set only when the trace has no priority yet
KeepTrace_IfUnset(s) == IF s.sampling_priority = "None" THEN set_tag(s, MANUAL_KEEP_KEY, PyNone) ELSE s

\* span.set_tag(MANUAL_KEEP_KEY)
KeepTrace(s) == set_tag(s, MANUAL_KEEP_KEY, PyNone)

\* the origin overwritten
SetOrigin_Always(s) == _set_str_tag(s, ORIGIN_KEY, "appsec")

\* the origin never set
SetOrigin_Never(s) == s

\* the origin, when the span has none
SetOrigin(s) == IF ~HasTag(s, ORIGIN_KEY) THEN _set_str_tag(s, ORIGIN_KEY, "appsec") ELSE s

\* the call of run() inside a try that turns a failure into "no match"
ddwaf_run_Swallowed(out) ==
    [raised |-> "", runs |-> 1, res |-> IF out = RUN_RAISES THEN RUN_NULL ELSE out]

\* res = self._ddwaf.run(data), called once and not guarded: what on_span_finish sees
\* of a run() that ends in out
ddwaf_run(out) ==
    [raised |-> IF out = RUN_RAISES THEN "RunError" ELSE "",
     runs |-> 1,
     res |-> IF out = RUN_RAISES THEN RUN_NULL ELSE out]

\* on_span_finish(span) with engine.run() ending in out: the span it leaves and what it did
on_span_finish(s, out) ==
    IF IsSkipped(s) THEN Outcome(s, "", {}, 0, RUN_NULL, EmptyDict)
    ELSE
    LET s2 == Baseline(s)
        hasRequest == REQUEST_HEADERS_KEY \in DOMAIN ctx
        hasResponse == RESPONSE_HEADERS_KEY \in DOMAIN ctx
        request_headers == IF hasRequest THEN _transform_headers(ctx[REQUEST_HEADERS_KEY]) ELSE <<>>
        response_headers == IF hasResponse THEN _transform_headers(ctx[RESPONSE_HEADERS_KEY]) ELSE <<>>
        d1 == CollectScalars(EmptyDict, 1)
        d2 == IF _is_needed(SERVER_REQUEST_HEADERS_NO_COOKIES) /\ hasRequest
              THEN Put(d1, SERVER_REQUEST_HEADERS_NO_COOKIES, _transform_headers(request_headers))
              ELSE d1
        data == IF _is_needed(SERVER_RESPONSE_HEADERS_NO_COOKIES) /\ hasResponse
                THEN Put(d2, SERVER_RESPONSE_HEADERS_NO_COOKIES, response_headers)
                ELSE d2
    IN  IF ~ddwaf.present THEN Outcome(s2, "AttributeError", KeysRead, 0, RUN_NULL, data)
        ELSE
        LET r == ddwaf_run(out) IN
        IF r.raised # "" THEN Outcome(s2, r.raised, KeysRead, r.runs, out, data)
        ELSE IF ~IsMatch(r.res) THEN Outcome(s2, "", KeysRead, r.runs, out, data)
        ELSE
        LET s3 == IF hasRequest
                  THEN _set_headers(s2, "request", _COLLECTED_REQUEST_HEADERS, request_headers)
                  ELSE s2
            s4 == IF hasResponse
                  THEN _set_headers(s3, "response", _COLLECTED_RESPONSE_HEADERS, response_headers)
                  ELSE s3
        IN  Outcome(SetOrigin(KeepTrace(TagEvent(s4, r.res))), "", KeysRead, r.runs, out, data)

\* on_span_start(span): pass
on_span_start(s) == s

(***************************************************************************)
(* The inputs: spans and what the instrumentation puts in the context store *)
(***************************************************************************)
n_Cookie == <<"C", "o", "o", "k", "i", "e">>
n_cOOkie == <<"c", "O", "O", "k", "i", "e">>
n_Set_Cookie == <<"S", "e", "t", "-", "C", "o", "o", "k", "i", "e">>
n_User_Agent == <<"U", "s", "e", "r", "-", "A", "g", "e", "n", "t">>
n_Via == <<"V", "i", "a">>
n_via == <<"v", "i", "a">>
n_VIA == <<"V", "I", "A">>
n_ETag == <<"E", "T", "a", "g">>
n_Content_Type == <<"C", "o", "n", "t", "e", "n", "t", "-", "T", "y", "p", "e">>
n_Content_Length == <<"C", "o", "n", "t", "e", "n", "t", "-", "L", "e", "n", "g", "t", "h">>
n_Content_Encoding ==
    <<"C", "o", "n", "t", "e", "n", "t", "-", "E", "n", "c", "o", "d", "i", "n", "g">>

Item(name, value) == [k |-> name, v |-> PyStr(value)]

RequestHeaderDicts ==
    {<<>>,
     <<Item(n_Cookie, "a=b"), Item(n_User_Agent, "x")>>,
     <<Item(n_Via, "1"), Item(n_ETag, "e"), Item(n_via, "2")>>}

ResponseHeaderDicts ==
    {<<Item(n_Content_Type, "text/html"), Item(n_Set_Cookie, "s=1")>>,
     <<Item(n_Content_Encoding, "gzip"), Item(n_Content_Length, "0")>>}

ItemValues(key) ==
    IF key = REQUEST_HEADERS_KEY THEN RequestHeaderDicts
    ELSE IF key = RESPONSE_HEADERS_KEY THEN ResponseHeaderDicts
    ELSE IF key = "http.request.method" THEN {"GET"}
    ELSE {"x"}

SpanTypes == {WEB, OPENSEARCH}
Origins == {"", "synthetics"}
Priorities == {"None", "AUTO_REJECT"}

\* the tracer opens a span; origin "" leaves the origin tag unset
StartSpan(type, origin, priority) ==
    /\ ctor # "uninit"
    /\ span.status = "none"
    /\ span' = [status |-> "new", span_type |-> type,
                tags |-> IF origin = "" THEN EmptyDict ELSE Put(EmptyDict, ORIGIN_KEY, origin),
                metrics |-> EmptyDict, sampling_priority |-> priority]
    /\ UNCHANGED <<ctor, ctorError, ctorArgs, ddwaf, addresses_to_keep, ctx, pre, call, hdrVars, osVars>>

OnSpanStart ==
    /\ span.status = "new"
    /\ pre' = span
    /\ span' = [on_span_start(span) EXCEPT !.status = "open"]
    /\ call' = [NoCall EXCEPT !.op = "on_span_start"]
    /\ UNCHANGED <<ctor, ctorError, ctorArgs, ddwaf, addresses_to_keep, ctx, hdrVars, osVars>>

\* _context.set_item(key, value, span) by the instrumentation
SetItem(key, value) ==
    /\ span.status = "open"
    /\ key \notin DOMAIN ctx
    /\ Cardinality(DOMAIN ctx) < MaxItems
    /\ ctx' = Put(ctx, key, value)
    /\ UNCHANGED <<ctor, ctorError, ctorArgs, ddwaf, addresses_to_keep, span, pre, call, hdrVars, osVars>>

\* on_span_finish marking as needed the address of every item it finds in the store
OnSpanFinish_Marks(out) ==
    /\ span.status = "open"
    /\ LET r == on_span_finish(span, out)
       IN  /\ pre' = span
           /\ span' = [r.span EXCEPT !.status = "finished"]
           /\ call' = [op |-> "on_span_finish", raised |-> r.raised, reads |-> r.reads,
                       runs |-> r.runs, res |-> r.res, data |-> r.data]
    /\ addresses_to_keep' =
           addresses_to_keep \cup
               {ScalarItems[i].address : i \in {j \in DOMAIN ScalarItems : ScalarItems[j].key \in DOMAIN ctx}}
    /\ UNCHANGED <<ctor, ctorError, ctorArgs, ddwaf, ctx, hdrVars, osVars>>

OnSpanFinish(out) ==
    /\ span.status = "open"
    /\ LET r == on_span_finish(span, out)
       IN  /\ pre' = span
           /\ span' = [r.span EXCEPT !.status = "finished"]
           /\ call' = [op |-> "on_span_finish", raised |-> r.raised, reads |-> r.reads,
                       runs |-> r.runs, res |-> r.res, data |-> r.data]
    /\ UNCHANGED <<ctor, ctorError, ctorArgs, ddwaf, addresses_to_keep, ctx, hdrVars, osVars>>

\* the finished span and its context store go away
Release ==
    /\ span.status = "finished"
    /\ span' = NoSpan
    /\ ctx' = EmptyDict
    /\ pre' = NoSpan
    /\ call' = NoCall
    /\ UNCHANGED <<ctor, ctorError, ctorArgs, ddwaf, addresses_to_keep, hdrVars, osVars>>

ProcInit ==
    /\ ctor = "uninit"
    /\ ctorError = ""
    /\ ctorArgs = NoArgs
    /\ ddwaf = NoEngine
    /\ addresses_to_keep = {}
    /\ span = NoSpan
    /\ ctx = EmptyDict
    /\ pre = NoSpan
    /\ call = NoCall

(***************************************************************************)
(* contrib/opensearch/patch.py: _patch, _unpatch and the wrapper           *)
(* _perform_request around Transport.perform_request                       *)
(***************************************************************************)
\* the tag and metric names the wrapper writes
SPAN_MEASURED_KEY == "_dd.measured"
ANALYTICS_SAMPLE_RATE_KEY == "_dd1.sr.eausr"
METHOD == "opensearch.method"
URL == "opensearch.url"
PARAMS == "opensearch.params"
BODY == "opensearch.body"
TOOK == "opensearch.took"
STATUS_CODE == "http.status_code"
QUERY_STRING == "http.query.string"
ERROR_TYPE == "error.type"

\* getattr(e, "status_code", 500)
DEFAULT_STATUS == 500

\* wrapt.wrap_function_wrapper puts one more wrapper around the attribute
_w(wrappers) == wrappers + 1

\* utils.wrappers.unwrap puts the wrapped function back when the attribute is a wrapper
_u(wrappers) == IF wrappers > 0 THEN wrappers - 1 ELSE wrappers

\* _patch without the test of the flag
_patch_NoGuard(patched, wrappers, pinned) ==
    [patched |-> TRUE, wrappers |-> _w(wrappers), pinned |-> TRUE]

_patch(patched, wrappers, pinned) ==
    IF patched THEN [patched |-> patched, wrappers |-> wrappers, pinned |-> pinned]
    ELSE [patched |-> TRUE, wrappers |-> _w(wrappers), pinned |-> TRUE]

_unpatch(patched, wrappers, pinned) ==
    IF patched THEN [patched |-> FALSE, wrappers |-> _u(wrappers), pinned |-> pinned]
    ELSE [patched |-> patched, wrappers |-> wrappers, pinned |-> pinned]

NoLast == [op |-> "none", was_patched |-> FALSE, wrappers_before |-> 0, pinned_before |-> FALSE]

\* ---- what the wrapped function may do ----
\* a status: None, or an int
NoStatus == [none |-> TRUE, n |-> 0]
Status(n) == [none |-> FALSE, n |-> n]
Truthy(status) == ~status.none /\ status.n # 0

\* the value under "took": absent (get gives None), an int, or a str
TookNone == [t |-> "none", n |-> 0, s |-> ""]
TookInt(n) == [t |-> "int", n |-> n, s |-> ""]
TookStr(s) == [t |-> "str", n |-> 0, s |-> s]
Tooks == {TookNone, TookInt(5), TookInt(0), TookStr("7"), TookStr("abc")}
TookTruthy(took) ==
    \/ took.t = "int" /\ took.n # 0
    \/ took.t = "str" /\ took.s # ""

\* int(took): the int itself, the number a str of digits spells, or ValueError
int(took) ==
    IF took.t = "int" THEN [raised |-> "", n |-> took.n]
    ELSE IF took.t = "str" /\ took.s = "7" THEN [raised |-> "", n |-> 7]
    ELSE IF took.t = "str" THEN [raised |-> "ValueError", n |-> 0]
    ELSE [raised |-> "TypeError", n |-> 0]

\* a response body: a dict, or something without .get (None)
Body(isdict, took) == [isdict |-> isdict, took |-> took]
Bodies == {Body(TRUE, t) : t \in Tooks} \cup {Body(FALSE, TookNone)}

\* a result of the wrapped function: the body alone (tuple = 0), or a tuple
\* of `tuple` elements whose first two are the status and the body
Result(tuple, status, data) == [tuple |-> tuple, status |-> status, data |-> data]
NoResult == Result(0, NoStatus, Body(FALSE, TookNone))
FuncResults ==
    {Result(0, NoStatus, d) : d \in Bodies}
        \cup {Result(2, Status(200), d) : d \in Bodies}
        \cup {Result(3, Status(200), Body(TRUE, TookInt(5)))}

\* an exception: its class, whether it is a TransportError, its status_code if any
Exc(name, transport, status) == [name |-> name, transport |-> transport, status |-> status]
NoExc == Exc("", FALSE, NoStatus)
FuncExcs ==
    { Exc("TransportError", TRUE, Status(404)),
      Exc("TransportError", TRUE, NoStatus),
      Exc("NotFoundError", TRUE, Status(404)),
      Exc("RuntimeError", FALSE, NoStatus) }

\* what one call of func(*args, **kwargs) does: returns result, or raises exc
FuncOutcomes ==
    {[exc |-> NoExc, result |-> res] : res \in FuncResults}
        \cup {[exc |-> e, result |-> NoResult] : e \in FuncExcs}

\* ---- the call ----
Pins == {"none", "disabled", "enabled"}
\* the positional arguments after the instance
ArgLists == {<<"GET", "/idx/_search">>, <<"PUT", "/idx">>, <<>>, <<"GET", "/idx", "q=1">>}
\* kwargs.get("params"), already a dict or None
ParamDicts == {"None", "{'q': '1'}"}
urlencode(params) == IF params = "None" THEN "" ELSE "q=1"
\* config.opensearch
Configs ==
    { [trace_query_string |-> FALSE, analytics_sample_rate |-> "None"],
      [trace_query_string |-> TRUE, analytics_sample_rate |-> "1.0"] }

\* the span pin.tracer.trace() opens
OsSpan == [tags |-> EmptyDict, metrics |-> EmptyDict, error |-> 0, resource |-> ""]

\* str(value), as Span.set_tag stores the http.status_code
str(n) ==
    IF n = 200 THEN "200" ELSE IF n = 404 THEN "404" ELSE IF n = DEFAULT_STATUS THEN "500"
    ELSE "int"

\* instance.serializer.dumps(body) of the body None
dumps_None == "null"

\* quantize(span): the resource becomes the method and the quantized url
quantize(s) ==
    IF HasTag(s, METHOD) /\ HasTag(s, URL)
    THEN [s EXCEPT !.resource = s.tags[METHOD] \o " " \o s.tags[URL]]
    ELSE s

\* leaving the `with` block: an exception in flight is recorded on the span
span_exit(s, raised) ==
    IF raised = "" THEN s
    ELSE [_set_str_tag(s, ERROR_TYPE, raised) EXCEPT !.error = 1]

\* the body of the soft-fail `try`
extract_try(s, result) ==
    LET status == IF result.tuple = 2 THEN result.status ELSE NoStatus
        has_get == result.tuple \in {0, 2} /\ result.data.isdict
        took == result.data.took
    IN  IF ~has_get THEN [span |-> s, status |-> status, raised |-> "AttributeError"]
        ELSE IF ~TookTruthy(took) THEN [span |-> s, status |-> status, raised |-> ""]
        ELSE IF int(took).raised # ""
             THEN [span |-> s, status |-> status, raised |-> int(took).raised]
        ELSE [span |-> set_metric(s, TOOK, int(took).n), status |-> status, raised |-> ""]

\* extract_metadata without `except Exception: pass`
extract_metadata_Unguarded(s, result) == extract_try(s, result)

\* the soft-fail `try` with its `except Exception: pass`
extract_metadata(s, result) == [extract_try(s, result) EXCEPT !.raised = ""]

\* what the caller gets
ReturnOf(result) == [kind |-> "return", result |-> result, exc |-> NoExc]
RaiseOf(exc) == [kind |-> "raise", result |-> NoResult, exc |-> exc]
NoValue == [kind |-> "", result |-> NoResult, exc |-> NoExc]
Invoke(f) == IF f.exc = NoExc THEN ReturnOf(f.result) ELSE RaiseOf(f.exc)

NoFunc == [exc |-> NoExc, result |-> NoResult]
NoReq ==
    [called |-> FALSE, path |-> "", pin |-> "none", sampled |-> FALSE, args |-> <<>>,
     func |-> NoFunc, calls |-> 0, value |-> NoValue, span |-> OsSpan, at_return |-> OsSpan]

Req(path, pin, sampled, args, f, calls, value, s, at_return) ==
    [called |-> TRUE, path |-> path, pin |-> pin, sampled |-> sampled, args |-> args,
     func |-> f, calls |-> calls, value |-> value, span |-> s, at_return |-> at_return]

\* the tags set before the wrapped call
TagRequest(s, args, params, cfg) ==
    LET method == args[1]
        url == args[2]
        encoded_params == urlencode(params)
        s1 == _set_str_tag(s, METHOD, method)
        s2 == _set_str_tag(s1, URL, url)
        s3 == _set_str_tag(s2, PARAMS, encoded_params)
        s4 == IF cfg.trace_query_string THEN _set_str_tag(s3, QUERY_STRING, encoded_params)
              ELSE s3
        s5 == IF method \in {"GET", "POST"} THEN _set_str_tag(s4, BODY, dumps_None) ELSE s4
        s6 == IF cfg.analytics_sample_rate = "None" THEN s5
              ELSE set_metric(s5, ANALYTICS_SAMPLE_RATE_KEY, cfg.analytics_sample_rate)
    IN  quantize(s6)

\* after the wrapped call returned: soft-fail extraction, status tag, return
AfterReturn(pin, sampled, args, f, s) ==
    LET r == extract_metadata(s, f.result) IN
    IF r.raised # ""
    THEN Req("extract", pin, sampled, args, f, 1,
             RaiseOf(Exc(r.raised, FALSE, NoStatus)), span_exit(r.span, r.raised), s)
    ELSE LET s2 == IF Truthy(r.status) THEN _set_str_tag(r.span, STATUS_CODE, str(r.status.n))
                   ELSE r.span
         IN  Req("done", pin, sampled, args, f, 1, ReturnOf(f.result), s2, s)

_perform_request(pin, sampled, args, params, cfg, f) ==
    IF pin # "enabled"
    THEN Req("untraced", pin, sampled, args, f, 1, Invoke(f), OsSpan, OsSpan)
    ELSE
    LET s0 == set_metric(OsSpan, SPAN_MEASURED_KEY, 1) IN
    IF ~sampled
    THEN Req("unsampled", pin, sampled, args, f, 1, Invoke(f),
             span_exit(s0, f.exc.name), s0)
    ELSE IF Len(args) # 2
    THEN Req("unpack", pin, sampled, args, f, 0,
             RaiseOf(Exc("ValueError", FALSE, NoStatus)), span_exit(s0, "ValueError"), s0)
    ELSE
    LET s1 == TagRequest(s0, args, params, cfg) IN
    IF f.exc # NoExc /\ f.exc.transport
    THEN LET code == IF f.exc.status.none THEN DEFAULT_STATUS ELSE f.exc.status.n
             s2 == [_set_str_tag(s1, STATUS_CODE, str(code)) EXCEPT !.error = 1]
         IN  Req("transport_error", pin, sampled, args, f, 1, RaiseOf(f.exc),
                 span_exit(s2, f.exc.name), s1)
    ELSE IF f.exc # NoExc
    THEN Req("error", pin, sampled, args, f, 1, RaiseOf(f.exc),
             span_exit(s1, f.exc.name), s1)
    ELSE AfterReturn(pin, sampled, args, f, s1)

\* no header dict in hand
HeaderIdle ==
    /\ hdrIn = <<>>
    /\ hdrOut = <<>>
    /\ hdrCalls = 0
    /\ hdrOrig = <<>>
    /\ hdrFirst = <<>>

\* the module as imported: not patched
OpenSearchInit ==
    /\ os_patched = FALSE
    /\ os_wrappers = 0
    /\ os_pinned = FALSE
    /\ os_last = NoLast
    /\ os_req = NoReq

Init ==
    /\ ProcInit
    /\ HeaderIdle
    /\ OpenSearchInit

Next ==
    \/ \E ddwafArg \in Engines \cup {NoEngine}, keepArg \in KeepArgs,
          rules \in {RULES_OK} \cup RuleFailures, built \in Engines :
           Construct(ddwafArg, keepArg, rules, built)
    \/ \E type \in SpanTypes, origin \in Origins, priority \in Priorities :
           StartSpan(type, origin, priority)
    \/ OnSpanStart
    \/ \E key \in ScalarKeys \cup HeaderKeys : \E value \in ItemValues(key) : SetItem(key, value)
    \/ \E out \in RunOutcomes : OnSpanFinish(out)
    \/ Release

Spec == Init /\ [][Next]_vars

(***************************************************************************)
(* HeaderSpec: _transform_headers applied to every raw header dict of at   *)
(* most MaxHdrs entries                                                    *)
(***************************************************************************)
HdrNames ==
    {cookie, n_Cookie, n_cOOkie, set_cookie, n_Set_Cookie, n_via, n_Via, n_VIA, n_ETag}
HdrValues == {"1", "2"}
HdrItems == {Item(n, v) : n \in HdrNames, v \in HdrValues}

\* a dict has each key once
RawHeaderDicts ==
    {d \in UNION {[1..m -> HdrItems] : m \in 0..MaxHdrs} :
        \A i, j \in DOMAIN d : d[i].k = d[j].k => i = j}

HeaderInit ==
    /\ ProcInit
    /\ OpenSearchInit
    /\ hdrIn \in RawHeaderDicts
    /\ hdrOrig = hdrIn
    /\ hdrOut = <<>>
    /\ hdrFirst = <<>>
    /\ hdrCalls = 0

\* normalized = _transform_headers(raw)
Normalize ==
    /\ hdrCalls = 0
    /\ hdrOut' = _transform_headers(hdrIn)
    /\ hdrIn' = argument_after(hdrIn)
    /\ hdrCalls' = hdrCalls + 1
    /\ UNCHANGED <<hdrOrig, hdrFirst, procVars, osVars>>

\* _transform_headers applied to its own result, as on_span_finish does
Renormalize ==
    /\ hdrCalls = 1
    /\ hdrOut' = _transform_headers(hdrOut)
    /\ hdrFirst' = argument_after(hdrOut)
    /\ hdrCalls' = hdrCalls + 1
    /\ UNCHANGED <<hdrIn, hdrOrig, procVars, osVars>>

HeaderNext == Normalize \/ Renormalize

HeaderSpec == HeaderInit /\ [][HeaderNext]_vars

(***************************************************************************)
(* OpenSearchSpec: patch and unpatch in any order, and calls of            *)
(* Transport.perform_request while it is wrapped                           *)
(***************************************************************************)
Patch ==
    /\ ~os_req.called
    /\ LET r == _patch(os_patched, os_wrappers, os_pinned)
       IN  /\ os_patched' = r.patched
           /\ os_wrappers' = r.wrappers
           /\ os_pinned' = r.pinned
    /\ os_last' = [op |-> "patch", was_patched |-> os_patched,
                   wrappers_before |-> os_wrappers, pinned_before |-> os_pinned]
    /\ UNCHANGED <<os_req, procVars, hdrVars>>

Unpatch ==
    /\ ~os_req.called
    /\ LET r == _unpatch(os_patched, os_wrappers, os_pinned)
       IN  /\ os_patched' = r.patched
           /\ os_wrappers' = r.wrappers
           /\ os_pinned' = r.pinned
    /\ os_last' = [op |-> "unpatch", was_patched |-> os_patched,
                   wrappers_before |-> os_wrappers, pinned_before |-> os_pinned]
    /\ UNCHANGED <<os_req, procVars, hdrVars>>

\* a call of transport.perform_request(*args, **kwargs) that goes through the wrapper
PerformRequest(pin, sampled, args, params, cfg, f) ==
    /\ os_wrappers > 0
    /\ ~os_req.called
    /\ os_req' = _perform_request(pin, sampled, args, params, cfg, f)
    /\ UNCHANGED <<os_patched, os_wrappers, os_pinned, os_last, procVars, hdrVars>>

\* the caller is done with the outcome
Done ==
    /\ os_req.called
    /\ os_req' = NoReq
    /\ UNCHANGED <<os_patched, os_wrappers, os_pinned, os_last, procVars, hdrVars>>

OpenSearchNext ==
    \/ Patch
    \/ Unpatch
    \/ \E pin \in Pins, sampled \in BOOLEAN, args \in ArgLists, params \in ParamDicts,
          cfg \in Configs, f \in FuncOutcomes :
           PerformRequest(pin, sampled, args, params, cfg, f)
    \/ Done

OpenSearchSpec == Init /\ [][OpenSearchNext]_vars

(***************************************************************************)
(* Properties                                                              *)
(***************************************************************************)
Redacted == {cookie, set_cookie}

\* the values of the entries of d whose lower-cased name is h, in d's order
RECURSIVE ValuesOf(_, _)
ValuesOf(d, h) ==
    IF d = <<>> THEN <<>>
    ELSE (IF lower(Head(d).k) = h THEN <<Head(d).v>> ELSE <<>>) \o ValuesOf(Tail(d), h)

EntriesFor(d, key) == {i \in DOMAIN d : d[i].k = key}

Finished == call.op = "on_span_finish"
FinishedWeb == Finished /\ pre.span_type = WEB
\* on_span_finish of a WEB span on a Ready processor came back with run()'s result
Returned == FinishedWeb /\ enabled /\ call.raised = ""
Matched == Returned /\ call.res \in Results
SameSpan(a, b) ==
    /\ a.tags = b.tags
    /\ a.metrics = b.metrics
    /\ a.sampling_priority = b.sampling_priority

\* C1: what _transform_headers returns has no key that is cookie or set-cookie,
\* in whatever letter case the input spelled the header names.
C1_NoCookieKeys ==
    hdrCalls >= 1 =>
        \A i \in DOMAIN hdrOut : hdrOut[i].k \notin Redacted /\ lower(hdrOut[i].k) \notin Redacted

\* a cookie header spelled in mixed case was normalized next to a header that is kept
C1_Witness ==
    /\ hdrCalls = 1
    /\ \E i \in DOMAIN hdrIn : hdrIn[i].k = n_cOOkie
    /\ \E i \in DOMAIN hdrIn : hdrIn[i].k = n_Set_Cookie
    /\ hdrOut # <<>>

\* C2: for every lower-cased name other than cookie and set-cookie, the output of
\* _transform_headers has exactly one entry under it when the input has entries of
\* that name: the scalar value when there is one, the list of all their values in
\* input order when there are two or more; and none when the input has none.
C2_RepeatedHeadersMerged ==
    hdrCalls = 1 =>
        \A h \in {lower(n) : n \in HdrNames} \ Redacted :
            LET vals == ValuesOf(hdrIn, h) IN
            /\ Len(vals) = 0 => EntriesFor(hdrOut, h) = {}
            /\ Len(vals) = 1 =>
                   Cardinality(EntriesFor(hdrOut, h)) = 1 /\ Get(hdrOut, h) = vals[1]
            /\ Len(vals) >= 2 =>
                   Cardinality(EntriesFor(hdrOut, h)) = 1 /\ Get(hdrOut, h) = PyList(vals)

\* three spellings of one name, with different values, were merged into one list
C2_Witness ==
    /\ hdrCalls = 1
    /\ Len(hdrIn) = 3
    /\ \A i \in DOMAIN hdrIn : lower(hdrIn[i].k) = n_via
    /\ hdrIn[1].v # hdrIn[2].v
    /\ Len(hdrOut) = 1
    /\ hdrOut[1].v = PyList(<<hdrIn[1].v, hdrIn[2].v, hdrIn[3].v>>)

\* C3: on_span_finish of a span that is not WEB changes no tag, no metric and no
\* priority of the span, reads nothing from the context store, does not run the
\* engine and raises nothing; on_span_start changes nothing of any span.
C3_NonWebUntouched ==
    /\ (Finished /\ pre.span_type # WEB) =>
           /\ SameSpan(span, pre)
           /\ call.reads = {}
           /\ call.runs = 0
           /\ call.raised = ""
    /\ call.op = "on_span_start" => SameSpan(span, pre) /\ span.span_type = pre.span_type

\* a span of another type, with both header dicts in its context store, was finished
\* on a Ready processor
C3_Witness ==
    /\ Finished
    /\ pre.span_type = OPENSEARCH
    /\ enabled
    /\ DOMAIN ctx = HeaderKeys
    /\ HasTag(pre, ORIGIN_KEY)

\* C4: after on_span_finish of a WEB span on a Ready processor the span has the metric
\* _dd.appsec.enabled = 1.0 and the tag _dd.runtime_family = "python", whatever run()
\* did and whatever the context store holds.
C4_BaselineTelemetry ==
    (FinishedWeb /\ enabled) =>
        /\ "_dd.appsec.enabled" \in DOMAIN span.metrics
        /\ span.metrics["_dd.appsec.enabled"] = 1
        /\ HasTag(span, "_dd.runtime_family")
        /\ span.tags["_dd.runtime_family"] = "python"

\* run() returned null for a WEB span whose context store is not empty
C4_Witness ==
    /\ Returned
    /\ call.res = RUN_NULL
    /\ ctx # EmptyDict
    /\ ~HasTag(pre, "_dd.runtime_family")

\* C5: when run() returns null for a WEB span, the span after on_span_finish is the
\* span before it plus the baseline metric and tag, and nothing else: no event tag, no
\* result tag, no priority change, no origin, no header tag.
C5_NullAddsNothing ==
    (Returned /\ call.res = RUN_NULL) =>
        /\ span.tags = Put(pre.tags, "_dd.runtime_family", "python")
        /\ span.metrics = Put(pre.metrics, "_dd.appsec.enabled", 1)
        /\ span.sampling_priority = pre.sampling_priority

\* run() returned null with request and response headers in the context store
C5_Witness ==
    /\ Returned
    /\ call.res = RUN_NULL
    /\ DOMAIN ctx = HeaderKeys
    /\ \E i \in DOMAIN ctx[REQUEST_HEADERS_KEY] : ctx[REQUEST_HEADERS_KEY][i].k = n_User_Agent
    /\ ~HasTag(pre, ORIGIN_KEY)

\* C6: when run() returns a result R for a WEB span, after on_span_finish the span has
\* appsec.event = "true", _dd.appsec.json = {"triggers":R} and the priority USER_KEEP,
\* whatever the priority was.
C6_MatchTagged ==
    Matched =>
        /\ HasTag(span, "appsec.event")
        /\ span.tags["appsec.event"] = "true"
        /\ HasTag(span, "_dd.appsec.json")
        /\ span.tags["_dd.appsec.json"] = "{\"triggers\":" \o call.res \o "}"
        /\ (call.res = "[{\"rule\":\"R1\"}]" =>
                span.tags["_dd.appsec.json"] = "{\"triggers\":[{\"rule\":\"R1\"}]}")
        /\ span.sampling_priority = USER_KEEP

\* a match on a span whose trace was to be dropped
C6_Witness ==
    /\ Matched
    /\ call.res = "[{\"rule\":\"R1\"}]"
    /\ pre.sampling_priority = "AUTO_REJECT"
    /\ span.sampling_priority = USER_KEEP

\* C7: when run() returns a result and the span had an origin tag, the origin tag is
\* the same after on_span_finish.
C7_OriginKept ==
    (Matched /\ HasTag(pre, ORIGIN_KEY)) =>
        HasTag(span, ORIGIN_KEY) /\ span.tags[ORIGIN_KEY] = pre.tags[ORIGIN_KEY]

\* a match on a span whose origin was synthetics
C7_Witness ==
    /\ Matched
    /\ HasTag(pre, ORIGIN_KEY)
    /\ pre.tags[ORIGIN_KEY] = "synthetics"
    /\ HasTag(span, "appsec.event")

\* C8: when run() returns a result and the span had no origin tag, the origin tag is
\* "appsec" after on_span_finish.
C8_OriginSet ==
    (Matched /\ ~HasTag(pre, ORIGIN_KEY)) =>
        HasTag(span, ORIGIN_KEY) /\ span.tags[ORIGIN_KEY] = "appsec"

\* a match on a span without an origin
C8_Witness ==
    /\ Matched
    /\ ~HasTag(pre, ORIGIN_KEY)
    /\ HasTag(span, ORIGIN_KEY)

\* C9 as stated: after a successful construction the needed addresses are the
\* engine's required addresses plus server.request.headers.no_cookies.
C9_Original ==
    ctor = "ready" =>
        addresses_to_keep = ddwaf.required_data \cup {SERVER_REQUEST_HEADERS_NO_COOKIES}

\* C9, amended: after a successful construction the needed addresses are the set
\* passed to the constructor as addresses_to_keep (empty by default), plus the engine's
\* required addresses, plus server.request.headers.no_cookies; the last is there even
\* when the engine requires nothing.
C9_RegistryAfterConstruction ==
    ctor = "ready" =>
        /\ enabled
        /\ addresses_to_keep =
               (ctorArgs.addresses_to_keep \cup ddwaf.required_data)
                   \cup {SERVER_REQUEST_HEADERS_NO_COOKIES}
        /\ SERVER_REQUEST_HEADERS_NO_COOKIES \in addresses_to_keep

\* an engine that requires nothing was passed in, with a set of addresses to keep
C9_Witness ==
    /\ ctor = "ready"
    /\ ctorArgs.ddwaf.present
    /\ ddwaf.required_data = {}
    /\ ctorArgs.addresses_to_keep = {SERVER_REQUEST_COOKIES}
    /\ addresses_to_keep = {SERVER_REQUEST_COOKIES, SERVER_REQUEST_HEADERS_NO_COOKIES}

C11_FailedConstructionRaises ==
    ctorArgs.rules \in RuleFailures =>
        /\ ctor = "failed"
        /\ ctorError = ctorArgs.rules
        /\ ctorError # ""
        /\ ~enabled
        /\ addresses_to_keep = ctorArgs.addresses_to_keep
        /\ (SERVER_REQUEST_HEADERS_NO_COOKIES \notin ctorArgs.addresses_to_keep
                => ~_is_needed(SERVER_REQUEST_HEADERS_NO_COOKIES))

\* the engine rejected the rules of a processor built with the default arguments
C11_Witness ==
    /\ ctor = "failed"
    /\ ctorArgs.rules = "ValueError"
    /\ ctorError = "ValueError"
    /\ ctorArgs.addresses_to_keep = {}

\* C12: when run() fails during on_span_finish of a WEB span, the failure reaches the
\* caller of on_span_finish, run() was called exactly once, and the span has nothing
\* but the baseline telemetry: no event tag, no result tag, no priority change, no
\* origin, no header tag.
C12_RunFailurePropagates ==
    (FinishedWeb /\ enabled /\ call.res = RUN_RAISES) =>
        /\ call.raised = "RunError"
        /\ call.runs = 1
        /\ span.tags = Put(pre.tags, "_dd.runtime_family", "python")
        /\ span.metrics = Put(pre.metrics, "_dd.appsec.enabled", 1)
        /\ span.sampling_priority = pre.sampling_priority

\* run() failed for a WEB span with allow-listed request headers and no origin
C12_Witness ==
    /\ FinishedWeb
    /\ enabled
    /\ call.res = RUN_RAISES
    /\ call.raised = "RunError"
    /\ REQUEST_HEADERS_KEY \in DOMAIN ctx
    /\ \E i \in DOMAIN ctx[REQUEST_HEADERS_KEY] : ctx[REQUEST_HEADERS_KEY][i].k = n_User_Agent
    /\ ~HasTag(span, ORIGIN_KEY)

\* every header name the model puts in a context store, and the redacted ones
ModelNames ==
    {n_Cookie, n_cOOkie, n_Set_Cookie, n_User_Agent, n_Via, n_via, n_VIA, n_ETag,
     n_Content_Type, n_Content_Length, n_Content_Encoding, cookie, set_cookie}
Kinds == {"request", "response"}
HeadersKeyOf(kind) == IF kind = "request" THEN REQUEST_HEADERS_KEY ELSE RESPONSE_HEADERS_KEY
AllowListOf(kind) ==
    IF kind = "request" THEN _COLLECTED_REQUEST_HEADERS ELSE _COLLECTED_RESPONSE_HEADERS
HeaderTag(kind, name) == kind \o ".headers." \o Join(lower(name))
NewTags == DOMAIN span.tags \ DOMAIN pre.tags
\* the header tags there can be: of which kind, for which lower-cased name
HeaderTagTable ==
    {[kind |-> kind, name |-> lower(n), str |-> Join(lower(n)), tag |-> HeaderTag(kind, n)] :
        kind \in Kinds, n \in ModelNames}
OtherTags == {"_dd.runtime_family", "appsec.event", "_dd.appsec.json", ORIGIN_KEY}

\* C14: a header tag that an on_span_finish call wrote names a header of the context
\* store whose lower-cased name is in the allow-list of its kind and is not cookie or
\* set-cookie, and the call is one in which run() returned a result; and the call
\* wrote no tag besides these, the runtime family, the two event tags and the origin.
C14_HeaderTagsOnlyAllowListedOnMatch ==
    Finished =>
        \A tag \in NewTags \ OtherTags :
            /\ \E e \in HeaderTagTable : e.tag = tag
            /\ \A e \in HeaderTagTable :
                   e.tag = tag =>
                       /\ Matched
                       /\ e.str \in AllowListOf(e.kind)
                       /\ e.name \notin Redacted
                       /\ HeadersKeyOf(e.kind) \in DOMAIN ctx
                       /\ \E i \in DOMAIN ctx[HeadersKeyOf(e.kind)] :
                              lower(ctx[HeadersKeyOf(e.kind)][i].k) = e.name

\* a match with Cookie and User-Agent in the request headers and Set-Cookie and
\* Content-Type in the response headers: the two allow-listed ones became tags
C14_Witness ==
    /\ Matched
    /\ DOMAIN ctx = HeaderKeys
    /\ \E i \in DOMAIN ctx[REQUEST_HEADERS_KEY] : ctx[REQUEST_HEADERS_KEY][i].k = n_Cookie
    /\ \E i \in DOMAIN ctx[RESPONSE_HEADERS_KEY] : ctx[RESPONSE_HEADERS_KEY][i].k = n_Set_Cookie
    /\ HeaderTag("request", n_User_Agent) \in NewTags
    /\ HeaderTag("response", n_Content_Type) \in NewTags

\* the response allow-list as the specification gives it
SpecResponseAllowList == {"content-length", "content-type", "content-encoding", "content-language"}
SpecAllowListOf(kind) ==
    IF kind = "request" THEN _COLLECTED_REQUEST_HEADERS ELSE SpecResponseAllowList

\* C15: on a match, every header of the context store's request (response) headers
\* whose lower-cased name is in the request allow-list (in content-length,
\* content-type, content-encoding, content-language) is a tag {kind}.headers.{name}
\* of the span that carries the header's value, whether or not the engine needs the
\* header address.
C15_AllowListedHeadersProjected ==
    Matched =>
        \A kind \in Kinds :
            HeadersKeyOf(kind) \in DOMAIN ctx =>
                \A i \in DOMAIN ctx[HeadersKeyOf(kind)] :
                    LET h == lower(ctx[HeadersKeyOf(kind)][i].k) IN
                    Join(h) \in SpecAllowListOf(kind) =>
                        /\ HasTag(span, HeaderTag(kind, h))
                        /\ span.tags[HeaderTag(kind, h)] =
                               stringify(Get(_transform_headers(ctx[HeadersKeyOf(kind)]), h))

\* the context-store key of an address that on_span_finish hands to the engine
KeyOfAddress(address) ==
    CASE address = SERVER_REQUEST_QUERY -> "http.request.query"
      [] address = SERVER_REQUEST_HEADERS_NO_COOKIES -> "http.request.headers"
      [] address = SERVER_REQUEST_URI_RAW -> "http.request.uri"
      [] address = SERVER_REQUEST_METHOD -> "http.request.method"
      [] address = SERVER_REQUEST_PATH_PARAMS -> "http.request.path_params"
      [] address = SERVER_REQUEST_COOKIES -> "http.request.cookies"
      [] address = SERVER_RESPONSE_STATUS -> "http.response.status"
      [] address = SERVER_RESPONSE_HEADERS_NO_COOKIES -> "http.response.headers"
      [] OTHER -> "<no key>"
HeaderAddresses == {SERVER_REQUEST_HEADERS_NO_COOKIES, SERVER_RESPONSE_HEADERS_NO_COOKIES}
IsNormalized(d) ==
    \A i \in DOMAIN d :
        /\ d[i].k = lower(d[i].k)
        /\ d[i].k \notin Redacted
        /\ \A j \in DOMAIN d : d[j].k = d[i].k => j = i

\* C16: the data handed to run() for a WEB span on a Ready processor has a key for an
\* address only if the address is needed and the context store has a value under the
\* address's key; the value is that of the store, and for the two header addresses it
\* is a normalized dict: lower-cased names, each once, no cookie and no set-cookie.
C16_DataOnlyNeededAndPresent ==
    (FinishedWeb /\ enabled) =>
        \A a \in DOMAIN call.data :
            /\ a \in addresses_to_keep
            /\ KeyOfAddress(a) \in DOMAIN ctx
            /\ a \notin HeaderAddresses => call.data[a] = ctx[KeyOfAddress(a)]
            /\ a \in HeaderAddresses =>
                   /\ IsNormalized(call.data[a])
                   /\ \A i \in DOMAIN ctx[KeyOfAddress(a)] :
                          lower(ctx[KeyOfAddress(a)][i].k) \notin Redacted
                              => HasKey(call.data[a], lower(ctx[KeyOfAddress(a)][i].k))

\* the store held the method and request headers with a cookie; the engine needed the
\* method and the request headers, and got exactly these two, the cookie left out
C16_Witness ==
    /\ Returned
    /\ DOMAIN ctx = {"http.request.method", REQUEST_HEADERS_KEY}
    /\ \E i \in DOMAIN ctx[REQUEST_HEADERS_KEY] : ctx[REQUEST_HEADERS_KEY][i].k = n_Cookie
    /\ DOMAIN call.data = {SERVER_REQUEST_METHOD, SERVER_REQUEST_HEADERS_NO_COOKIES}
    /\ Len(call.data[SERVER_REQUEST_HEADERS_NO_COOKIES]) = 1

\* C17: once the processor is constructed, no step changes the needed addresses, the
\* engine, or the state of the processor: a Ready processor stays Ready.
C17_RegistryFrozen ==
    [][ctor # "uninit" =>
           /\ addresses_to_keep' = addresses_to_keep
           /\ ddwaf' = ddwaf
           /\ ctor' = ctor]_vars

\* a match was processed on a Ready processor whose registry lacks addresses that the
\* context store holds
C17_Witness ==
    /\ ctor = "ready"
    /\ Matched
    /\ "http.request.method" \in DOMAIN ctx
    /\ ~_is_needed(SERVER_REQUEST_METHOD)

\* C18: for every raw header dict (names to strings), normalizing the normalized dict
\* gives the normalized dict again, the first call leaves the raw dict as it was, and
\* the second call leaves the first call's result as it was.
C18_NormalizeIdempotentPure ==
    /\ [](hdrCalls >= 1 => hdrIn = hdrOrig)
    /\ [](hdrCalls = 2 => hdrFirst = hdrOut)
    /\ [][hdrCalls = 1 => hdrOut' = hdrOut]_vars

\* a dict with a cookie and two spellings of one name was normalized twice: the
\* result holds a list
C18_Witness ==
    /\ hdrCalls = 2
    /\ Len(hdrOrig) = 3
    /\ \E i \in DOMAIN hdrOrig : lower(hdrOrig[i].k) = cookie
    /\ Len(hdrOut) = 1
    /\ IsList(hdrOut[1].v)
    /\ hdrFirst = hdrOut

\* the wrapped call returned and the soft-fail `try` failed on its result
ExtractionFailed ==
    /\ os_req.called
    /\ os_req.path \in {"done", "extract"}
    /\ extract_try(os_req.at_return, os_req.func.result).raised # ""

\* C13: when the wrapped call has returned and extracting 'took' from its result fails,
\* the wrapper raises nothing, every tag and metric set before is as it was, and the
\* caller gets the wrapped call's result.
C13_ExtractionFailureSwallowed ==
    ExtractionFailed =>
        /\ os_req.value = ReturnOf(os_req.func.result)
        /\ \A k \in DOMAIN os_req.at_return.tags :
               /\ k \in DOMAIN os_req.span.tags
               /\ os_req.span.tags[k] = os_req.at_return.tags[k]
        /\ os_req.span.metrics = os_req.at_return.metrics
        /\ os_req.span.error = 0
        /\ os_req.span.resource = os_req.at_return.resource

\* int("abc") failed on a (status, body) result: the result came back, the status tag
\* was still set
C13_Witness ==
    /\ ExtractionFailed
    /\ os_req.func.result.tuple = 2
    /\ os_req.func.result.data.took = TookStr("abc")
    /\ os_req.value.kind = "return"
    /\ HasTag(os_req.span, STATUS_CODE)
    /\ HasTag(os_req.span, METHOD)

\* C19: on every call through the wrapper the wrapped function is invoked exactly once
\* and what it returned or raised is what the caller gets; when it raised a
\* TransportError on a traced call the span has http.status_code (the error's
\* status_code, or 500) and error = 1.
C19_InvokedOnceUnchanged ==
    os_req.called =>
        /\ os_req.calls = 1
        /\ os_req.value = Invoke(os_req.func)
        /\ os_req.path = "transport_error" =>
               /\ os_req.span.error = 1
               /\ os_req.span.tags[STATUS_CODE] =
                      IF os_req.func.exc.status.none THEN "500"
                      ELSE str(os_req.func.exc.status.n)

\* C20: perform_request has at most one wrapper and has one exactly when _datadog_patch
\* is true; patch on a patched module adds none, unpatch on an unpatched module changes
\* nothing, and unpatch on a patched module leaves no wrapper.
C20_WrappedIffPatched ==
    /\ os_wrappers <= 1
    /\ (os_wrappers = 1) <=> os_patched
    /\ os_last.op = "patch" /\ os_last.was_patched =>
           /\ os_wrappers = os_last.wrappers_before
           /\ os_pinned = os_last.pinned_before
    /\ os_last.op = "unpatch" /\ ~os_last.was_patched =>
           /\ os_wrappers = os_last.wrappers_before
           /\ os_pinned = os_last.pinned_before
           /\ ~os_patched
    /\ os_last.op = "unpatch" /\ os_last.was_patched => os_wrappers = 0

\* patch was called on a patched module
C20_Witness ==
    /\ os_last.op = "patch"
    /\ os_last.was_patched
    /\ os_patched
    /\ os_wrappers = 1

====
